---- MODULE Spec2Model ----
\* A model of vigorstats.py: the telnet session that logs in to a Vigor 130
\* modem, issues "vdsl status" and "vdsl status more", and extracts the fields
\* of VIGOR_130_VALUES / VIGOR_130_MORE_VALUES from the two captured blobs.
\*
\* Text is modelled as sequences of one-character strings, so that endswith,
\* the "in" test, str.replace and the two regular expressions are computed
\* character by character, as Python computes them.
EXTENDS Integers, Sequences, FiniteSets, TLC

\* ---------------------------------------------------------------- bounds
\* Largest retry budget passed to read_until when it is exercised on its own.
MaxRetries == 3
\* Largest number of lines of a "vdsl status" response.
MaxBasicLines == 1
\* Largest number of lines of a "vdsl status more" response.
MaxExtLines == 2

\* ------------------------------------------------------ program constants
\* read_until(reader, text, retries=5, sleep=0.2)
DefaultRetries == 5

VIGOR_USERNAME == <<"a","d","m","i","n">>
VIGOR_PASSWORD == <<"a","d","m","i","n">>
CRLF == <<"\r","\n">>
MarkerAccount == <<"A","c","c","o","u","n","t",":">>
MarkerPassword == <<"P","a","s","s","w","o","r","d",":"," ">>
MarkerPrompt == <<">"," ">>
CmdStatus == <<"v","d","s","l"," ","s","t","a","t","u","s">> \o CRLF
CmdStatusMore == <<"v","d","s","l"," ","s","t","a","t","u","s"," ","m","o","r","e">> \o CRLF

\* ------------------------------------------------------------ characters
UpperChars == <<"A","B","C","D","E","F","G","H","I","J","K","L","M",
                "N","O","P","Q","R","S","T","U","V","W","X","Y","Z">>
LowerChars == <<"a","b","c","d","e","f","g","h","i","j","k","l","m",
                "n","o","p","q","r","s","t","u","v","w","x","y","z">>
DigitChars == <<"0","1","2","3","4","5","6","7","8","9">>

\* \s of the re module (the whitespace the modelled texts can contain)
IsSpace(c) == c \in {" ", "\n", "\r", "\t"}
\* \d
IsDigit(c) == \E i \in 1..10 : DigitChars[i] = c
\* \w : letters, digits and the underscore
IsWord(c) == \/ IsDigit(c)
             \/ \E i \in 1..26 : UpperChars[i] = c \/ LowerChars[i] = c
             \/ c = "_"

\* str.lower() on one character
LowerChar(c) == IF \E i \in 1..26 : UpperChars[i] = c
                THEN LowerChars[CHOOSE i \in 1..26 : UpperChars[i] = c]
                ELSE c
\* str.lower()
Lower(s) == [i \in 1..Len(s) |-> LowerChar(s[i])]

\* s[i:].startswith(t), positions counted from 1
StartsWithAt(s, i, t) == /\ i + Len(t) - 1 <= Len(s)
                         /\ SubSeq(s, i, i + Len(t) - 1) = t
\* str.endswith
EndsWith(s, t) == /\ Len(t) <= Len(s)
                  /\ SubSeq(s, Len(s) - Len(t) + 1, Len(s)) = t
\* the "in" operator on strings
Contains(s, t) == \E i \in 1..(Len(s) + 1) : StartsWithAt(s, i, t)

\* str.replace(old, new): one left-to-right pass over non-overlapping matches
RECURSIVE ReplaceFrom(_, _, _, _)
ReplaceFrom(s, i, old, new) ==
  IF i > Len(s) THEN <<>>
  ELSE IF StartsWithAt(s, i, old)
       THEN new \o ReplaceFrom(s, i + Len(old), old, new)
       ELSE <<s[i]>> \o ReplaceFrom(s, i + 1, old, new)
Replace(s, old, new) == ReplaceFrom(s, 1, old, new)

\* Variant of LabelKey: the spaces are squashed but not turned into underscores.
LabelKeyNoUnderscore(label) == Replace(Lower(label), <<" "," ">>, <<" ">>)

\* value["label"].lower().replace("  ", " ").replace(" ", "_")
LabelKey(label) == Replace(Replace(Lower(label), <<" "," ">>, <<" ">>), <<" ">>, <<"_">>)
\* desc.lower().replace(" ", "_")
\* Variant of DescKey: only the last word of the description is kept.
DescKeyLastWord(desc) ==
  LET sp == {i \in 1..Len(desc) : desc[i] = " "}
      from == IF sp = {} THEN 1 ELSE 1 + CHOOSE i \in sp : \A j \in sp : j <= i
  IN Replace(Lower(SubSeq(desc, from, Len(desc))), <<" ">>, <<"_">>)

DescKey(desc) == Replace(Lower(desc), <<" ">>, <<"_">>)
\* the key of a paired field: the description when there is one
PairKey(value) == IF value.desc # <<>> THEN DescKey(value.desc) ELSE LabelKey(value.label)

\* --------------------------------------------------------------- schema
\* The simple fields of "vdsl status": label, optional unit, optional coercion.
\* An absent "unit" or "desc" is the empty sequence (value.get(..., None) is falsy).
VIGOR_130_VALUES == <<
  [label |-> <<"R","u","n","n","i","n","g"," ","M","o","d","e">>,
   unit |-> <<>>, desc |-> <<>>, coerce |-> "none"],
  [label |-> <<"S","t","a","t","e">>,
   unit |-> <<>>, desc |-> <<>>, coerce |-> "none"],
  [label |-> <<"P","o","w","e","r"," ","M","a","n","a","g","e","m","e","n","t"," ","M","o","d","e">>,
   unit |-> <<>>, desc |-> <<>>, coerce |-> "none"],
  [label |-> <<"D","S"," ","A","c","t","u","a","l"," ","R","a","t","e">>,
   unit |-> <<"b","p","s">>, desc |-> <<>>, coerce |-> "int"],
  [label |-> <<"D","S"," ","A","t","t","a","i","n","a","b","l","e"," ","R","a","t","e">>,
   unit |-> <<"b","p","s">>, desc |-> <<>>, coerce |-> "int"],
  [label |-> <<"D","S"," ","I","n","t","e","r","l","e","a","v","e"," ","D","e","p","t","h">>,
   unit |-> <<>>, desc |-> <<>>, coerce |-> "int"],
  [label |-> <<"N","E"," ","C","u","r","r","e","n","t"," ","A","t","t","e","n","u","a","t","i","o","n">>,
   unit |-> <<"d","B">>, desc |-> <<>>, coerce |-> "int"],
  [label |-> <<"N","E"," ","C","R","C"," ","C","o","u","n","t">>,
   unit |-> <<>>, desc |-> <<>>, coerce |-> "int"],
  [label |-> <<"N","E"," ","E","S"," ","C","o","u","n","t">>,
   unit |-> <<>>, desc |-> <<>>, coerce |-> "int"],
  [label |-> <<"U","S"," ","A","c","t","u","a","l"," ","R","a","t","e">>,
   unit |-> <<"b","p","s">>, desc |-> <<>>, coerce |-> "int"],
  [label |-> <<"U","S"," ","A","t","t","a","i","n","a","b","l","e"," ","R","a","t","e">>,
   unit |-> <<"b","p","s">>, desc |-> <<>>, coerce |-> "int"],
  [label |-> <<"U","S"," ","I","n","t","e","r","l","e","a","v","e"," ","D","e","p","t","h">>,
   unit |-> <<>>, desc |-> <<>>, coerce |-> "int"],
  [label |-> <<"C","u","r"," ","S","N","R"," ","M","a","r","g","i","n">>,
   unit |-> <<"d","B">>, desc |-> <<>>, coerce |-> "int"],
  [label |-> <<"F","E"," ","C","R","C"," ","C","o","u","n","t">>,
   unit |-> <<>>, desc |-> <<>>, coerce |-> "int"],
  [label |-> <<"F","E"," "," ","E","S"," ","C","o","u","n","t">>,
   unit |-> <<>>, desc |-> <<>>, coerce |-> "int"],
  [label |-> <<"F","a","r"," ","C","u","r","r","e","n","t"," ","A","t","t","e","n","u","a","t","i","o","n">>,
   unit |-> <<"d","B">>, desc |-> <<>>, coerce |-> "int"],
  [label |-> <<"F","a","r"," ","S","N","R"," ","M","a","r","g","i","n">>,
   unit |-> <<"d","B">>, desc |-> <<>>, coerce |-> "int"],
  [label |-> <<"X","d","s","l"," ","R","e","s","e","t"," ","T","i","m","e","s">>,
   unit |-> <<>>, desc |-> <<>>, coerce |-> "int"],
  [label |-> <<"X","d","s","l"," ","L","i","n","k"," "," ","T","i","m","e","s">>,
   unit |-> <<>>, desc |-> <<>>, coerce |-> "int"]
>>

\* The paired (near end / far end) fields of "vdsl status more".
VIGOR_130_MORE_VALUES == <<
  [label |-> <<"T","r","e","l","l","i","s">>,
   unit |-> <<>>, desc |-> <<>>, coerce |-> "bool"],
  [label |-> <<"B","i","t","s","w","a","p">>,
   unit |-> <<>>, desc |-> <<>>, coerce |-> "bool"],
  [label |-> <<"R","e","T","x","E","n","a","b","l","e">>,
   unit |-> <<>>, desc |-> <<>>, coerce |-> "bool"],
  [label |-> <<"V","i","r","t","u","a","l","N","o","i","s","e">>,
   unit |-> <<>>, desc |-> <<>>, coerce |-> "bool"],
  [label |-> <<"L","O","S">>,
   unit |-> <<>>, desc |-> <<"L","o","s","s"," ","O","f"," ","S","i","g","n","a","l"," ","C","o","u","n","t">>, coerce |-> "int"],
  [label |-> <<"L","O","F">>,
   unit |-> <<>>, desc |-> <<"L","o","s","s"," ","O","f"," ","F","r","a","m","e"," ","C","o","u","n","t">>, coerce |-> "int"],
  [label |-> <<"L","P","R">>,
   unit |-> <<>>, desc |-> <<"L","o","s","s"," ","O","f"," ","P","o","w","e","r"," ","C","o","u","n","t">>, coerce |-> "int"],
  [label |-> <<"L","O","M">>,
   unit |-> <<>>, desc |-> <<"L","o","s","s"," ","O","f"," ","M","a","r","g","i","n"," ","C","o","u","n","t">>, coerce |-> "int"],
  [label |-> <<"S","o","s","S","u","c","c","e","s","s">>,
   unit |-> <<>>, desc |-> <<"S","u","c","c","e","s","s","f","u","l"," ","S","O","S"," ","P","r","o","c","e","d","u","r","e"," ","C","o","u","n","t">>, coerce |-> "int"],
  [label |-> <<"N","C","D">>,
   unit |-> <<>>, desc |-> <<"N","o"," ","C","e","l","l"," ","D","e","l","i","n","e","a","t","i","o","n"," ","F","a","i","l","u","r","e"," ","C","o","u","n","t">>, coerce |-> "int"],
  [label |-> <<"L","C","D">>,
   unit |-> <<>>, desc |-> <<"L","o","s","s"," ","O","f"," ","C","e","l","l"," ","D","e","l","i","n","e","a","t","i","o","n"," ","F","a","i","l","u","r","e"," ","C","o","u","n","t">>, coerce |-> "int"],
  [label |-> <<"F","E","C","S">>,
   unit |-> <<>>, desc |-> <<"F","o","r","w","a","r","d"," ","E","r","r","o","r"," ","C","o","r","r","e","c","t","i","o","n"," ","S","e","c","o","n","d","s">>, coerce |-> "int"],
  [label |-> <<"E","S">>,
   unit |-> <<>>, desc |-> <<"E","r","r","o","r","e","d"," ","S","e","c","o","n","d","s">>, coerce |-> "int"],
  [label |-> <<"S","E","S">>,
   unit |-> <<>>, desc |-> <<"S","e","v","e","r","e","l","y"," ","E","r","r","o","r","e","d"," ","S","e","c","o","n","d","s">>, coerce |-> "int"],
  [label |-> <<"L","O","S","S">>,
   unit |-> <<>>, desc |-> <<"L","o","s","s"," ","O","f"," ","S","i","g","n","a","l"," ","S","e","c","o","n","d","s">>, coerce |-> "int"],
  [label |-> <<"U","A","S">>,
   unit |-> <<>>, desc |-> <<"U","n","a","v","a","i","l","a","b","l","e"," ","S","e","c","o","n","d","s">>, coerce |-> "int"],
  [label |-> <<"H","E","C","E","r","r","o","r">>,
   unit |-> <<>>, desc |-> <<"H","e","a","d","e","r"," ","E","r","r","o","r"," ","C","h","e","c","k"," ","E","r","r","o","r"," ","C","o","u","n","t">>, coerce |-> "int"],
  [label |-> <<"C","R","C">>,
   unit |-> <<>>, desc |-> <<"C","R","C"," ","E","r","r","o","r"," ","C","o","u","n","t">>, coerce |-> "int"],
  [label |-> <<"I","N","P">>,
   unit |-> <<>>, desc |-> <<"I","m","p","u","l","s","e"," ","N","o","i","s","e"," ","P","r","o","t","e","c","t","i","o","n">>, coerce |-> "int"],
  [label |-> <<"I","n","t","e","r","l","e","a","v","e","D","e","l","a","y">>,
   unit |-> <<>>, desc |-> <<"I","n","t","e","r","l","e","a","v","e"," ","D","e","l","a","y">>, coerce |-> "int"],
  [label |-> <<"N","F","E","C">>,
   unit |-> <<>>, desc |-> <<>>, coerce |-> "int"],
  [label |-> <<"R","F","E","C">>,
   unit |-> <<>>, desc |-> <<>>, coerce |-> "int"],
  [label |-> <<"L","S","Y","M","B">>,
   unit |-> <<>>, desc |-> <<>>, coerce |-> "int"],
  [label |-> <<"I","N","T","L","V","B","L","O","C","K">>,
   unit |-> <<>>, desc |-> <<>>, coerce |-> "int"]
>>

\* ------------------------------------------------- regular expressions
\* A pattern is a sequence of atoms: a literal text, one character of a class
\* (\s), a greedy run of one or more characters of a class (\s+), or such a
\* run captured as a group ((\w+), (\d+)). Classes: "s" is \s, "d" is \d and
\* "w" is \w.
Lit(text) == [t |-> "lit", c |-> "", v |-> text]
One(cls) == [t |-> "one", c |-> cls, v |-> <<>>]
Plus(cls) == [t |-> "plus", c |-> cls, v |-> <<>>]
Group(cls) == [t |-> "group", c |-> cls, v |-> <<>>]

InClass(cls, c) == IF cls = "s" THEN IsSpace(c)
                   ELSE IF cls = "d" THEN IsDigit(c) ELSE IsWord(c)

\* "{}\s+:\s+".format(label), the head of both patterns
LabelPattern(label) == <<Lit(label), Plus("s"), Lit(<<":">>), Plus("s")>>

\* "{}\s+:\s+(\w+)\s".format(label), and with a unit the same followed by
\* "+" and the unit, which makes the last atom \s+ and adds the unit literal
SimplePattern(label, unit) ==
  LabelPattern(label) \o
    (IF unit # <<>> THEN <<Group("w"), Plus("s"), Lit(unit)>>
                    ELSE <<Group("w"), One("s")>>)

\* "{}\s+:\s+(\d+)\s+(\d+)".format(label)
PairPattern(label) == LabelPattern(label) \o <<Group("d"), Plus("s"), Group("d")>>

\* End of the longest run of characters of class cls starting at position i:
\* the first position at or after i that is past the text or not in cls.
RunEnd(s, i, cls) ==
  CHOOSE j \in i..(Len(s) + 1) :
    /\ \A k \in i..(j - 1) : InClass(cls, s[k])
    /\ j = Len(s) + 1 \/ ~InClass(cls, s[j])

NoMatch == [ok |-> FALSE, gs |-> <<>>]

\* The atoms pat[k..] matched against s from position i, with the groups gs
\* captured so far. Every run in the two patterns is followed by an atom that
\* no character of the run's class matches (or by the end of the pattern), so
\* the longest run is the only one a backtracking matcher can succeed with.
RECURSIVE MatchFrom(_, _, _, _, _)
MatchFrom(s, i, pat, k, gs) ==
  IF k > Len(pat) THEN [ok |-> TRUE, gs |-> gs]
  ELSE IF pat[k].t = "lit"
  THEN IF StartsWithAt(s, i, pat[k].v)
       THEN MatchFrom(s, i + Len(pat[k].v), pat, k + 1, gs)
       ELSE NoMatch
  ELSE IF pat[k].t = "one"
  THEN IF i <= Len(s) /\ InClass(pat[k].c, s[i])
       THEN MatchFrom(s, i + 1, pat, k + 1, gs)
       ELSE NoMatch
  ELSE IF i <= Len(s) /\ InClass(pat[k].c, s[i])
       THEN MatchFrom(s, RunEnd(s, i, pat[k].c), pat, k + 1,
                      IF pat[k].t = "group"
                      THEN Append(gs, SubSeq(s, i, RunEnd(s, i, pat[k].c) - 1))
                      ELSE gs)
       ELSE NoMatch

\* pattern.match(s, i): the pattern matched at position i exactly
MatchAt(s, i, pat) == MatchFrom(s, i, pat, 1, <<>>)

\* The leftmost position of s at which pat matches, or 0.
FirstMatch(s, pat) ==
  IF \E i \in 1..Len(s) : MatchAt(s, i, pat).ok
  THEN CHOOSE i \in 1..Len(s) :
         /\ MatchAt(s, i, pat).ok
         /\ \A j \in 1..(i - 1) : ~MatchAt(s, j, pat).ok
  ELSE 0

\* re.search(regex, s): the match at the leftmost position that has one
Search(s, pat) == IF FirstMatch(s, pat) = 0 THEN NoMatch
                  ELSE MatchAt(s, FirstMatch(s, pat), pat)

\* ------------------------------------------------------------ coercion
IntV(n) == [kind |-> "int", n |-> n, s |-> <<>>, b |-> FALSE]
StrV(s) == [kind |-> "str", n |-> 0, s |-> s, b |-> FALSE]
BoolV(b) == [kind |-> "bool", n |-> 0, s |-> <<>>, b |-> b]

DigitValue(c) == (CHOOSE i \in 1..10 : DigitChars[i] = c) - 1

\* int(tok) raises ValueError unless tok is digits, optionally grouped by
\* single underscores (the only forms a \w+ token can take that int accepts)
IntAccepts(tok) ==
  /\ tok # <<>>
  /\ IsDigit(tok[1]) /\ IsDigit(tok[Len(tok)])
  /\ \A i \in 1..Len(tok) : IsDigit(tok[i]) \/ tok[i] = "_"
  /\ \A i \in 1..(Len(tok) - 1) : ~(tok[i] = "_" /\ tok[i + 1] = "_")

RECURSIVE IntOf(_)
IntOf(tok) ==
  IF tok = <<>> THEN 0
  ELSE IF tok[Len(tok)] = "_" THEN IntOf(SubSeq(tok, 1, Len(tok) - 1))
  ELSE IntOf(SubSeq(tok, 1, Len(tok) - 1)) * 10 + DigitValue(tok[Len(tok)])

\* coerce_fn(token): the converted value, or the exception it raises
Coerce(kind, tok) ==
  IF kind = "int"
  THEN IF IntAccepts(tok) THEN [raised |-> FALSE, v |-> IntV(IntOf(tok))]
       ELSE [raised |-> TRUE, v |-> StrV(tok)]
  ELSE IF kind = "bool"
  THEN [raised |-> FALSE, v |-> BoolV(tok # <<>>)]
  ELSE [raised |-> FALSE, v |-> StrV(tok)]

\* ------------------------------------------------------ device responses
\* What one reader.read(1024) of read_until can return while the driver waits
\* for marker m: end of file (empty), line noise, the marker alone, the marker
\* after other bytes, or either half of a marker that arrives in two reads.
HandshakeChunks(m) ==
  LET cut == (Len(m) + 1) \div 2
  IN { <<>>, CRLF, m, CRLF \o m, SubSeq(m, 1, cut), SubSeq(m, cut + 1, Len(m)) }

\* The line of the "vdsl status" response with the downstream rate.
LineDSRate == <<"D","S"," ","A","c","t","u","a","l"," ","R","a","t","e"," "," "," "," ",":"," "," "," ","1","2","3","4","5","6"," "," "," ","b","p","s","\n">>

\* Lines a "vdsl status" response is made of.
BasicLines == {
  <<"S","t","a","t","e"," ",":"," ","S","H","O","W","T","I","M","E","\n">>,
  LineDSRate,
  <<"D","S"," ","A","c","t","u","a","l"," ","R","a","t","e"," ",":"," ","1","2"," ","\n">>,
  <<"N","E"," ","C","R","C"," ","C","o","u","n","t"," ",":"," ","7","\n">>,
  <<"N","E"," ","C","R","C"," ","C","o","u","n","t"," ",":"," ","n","o","n","e","\n">>,
  <<"C","u","r"," ","S","N","R"," ","M","a","r","g","i","n"," ",":"," ","9"," ","d","B","m","\n">> }

\* Lines a "vdsl status more" response is made of.
LineFECS == <<"F","E","C","S"," "," "," "," "," "," "," "," "," ",":"," "," "," ","3","4","5","0","9","7"," "," "," "," "," "," "," "," "," "," "," "," ","6","3","3","0","4","7"," ","(","s","e","c","o","n","d","s",")","\n">>
LineES == <<"E","S"," ",":"," ","5"," ","6","\n">>
LineSES == <<"S","E","S"," ",":"," ","7"," ","8","\n">>
LineLOS == <<"L","O","S"," ",":"," ","1"," ","0","\n">>
LineTrellis == <<"T","r","e","l","l","i","s"," ",":"," ","0"," ","1","\n">>
LineLOF1 == <<"L","O","F"," ",":"," ","2","\n">>
LineBare == <<"4","2","\n">>
ExtLines == { LineFECS, LineES, LineSES, LineLOS, LineTrellis, LineLOF1, LineBare }

RECURSIVE Concat(_)
Concat(ls) == IF ls = <<>> THEN <<>> ELSE Head(ls) \o Concat(Tail(ls))

\* The texts of at most n lines drawn from L.
Texts(L, n) == { Concat(ls) : ls \in UNION { [1..k -> L] : k \in 0..n } }

BasicBlobs == Texts(BasicLines, MaxBasicLines)
ExtBlobs == Texts(ExtLines, MaxExtLines)

\* ---------------------------------------------------------------- state
VARIABLES
  mainpc,       \* main(): "start", "wait_closed" or "exited"
  exitStatus,   \* the status main() ends the process with
  mainlog,      \* the error main() logged: "none", "refused" or "cancelled"
  channelOpen,  \* the telnet connection opened by main() is still open
  pc,           \* position of the get_vigor_stats coroutine
  marker,       \* read_until: the text parameter
  retries,      \* read_until: the retries counter
  rdata,        \* read_until: the local "data", the result of the last read
  retries0,     \* history: the value of retries when read_until was called
  nreads,       \* history: reads done by the current read_until call
  acc,          \* history: concatenation of all chunks read by the current call
  data,         \* get_vigor_stats: the local "data"
  more_data,    \* get_vigor_stats: the local "more_data"
  idx,          \* position of the running for loop in its field list
  output,       \* get_vigor_stats: the dict "output"
  emitted,      \* what print(json.dumps(output)) wrote to standard output
  written,      \* everything written to the writer, in order
  trace,        \* history: the session events so far, in order
  nparsed,      \* history: number of loop bodies (fields) executed so far
  failed,       \* history: a session step raised
  crash,        \* the exception get_vigor_stats ended with, or "none"
  ktext,        \* key construction on its own: the label or description given
  kpath,        \* ... which code path builds the key, or "none"
  kstage,       \* ... 0: nothing built, 1: key built, 2: rekey built
  kkey,         \* ... the key built from ktext
  krekey        \* ... the key built from kkey

vars == <<mainpc, exitStatus, mainlog, channelOpen, pc, marker, retries, rdata, retries0,
          nreads, acc, data, more_data, idx, output, emitted, written, trace,
          nparsed, failed, crash, ktext, kpath, kstage, kkey, krekey>>

keyVars == <<ktext, kpath, kstage, kkey, krekey>>
mainVars == <<mainpc, exitStatus, mainlog, channelOpen>>
ruVars == <<marker, retries, rdata, retries0, nreads, acc>>
extractVars == <<idx, output, emitted, nparsed>>

\* A Python local: bound to None, bound to a string, or not bound at all.
NoneVal == [kind |-> "None", text |-> <<>>]
Unbound == [kind |-> "Unbound", text |-> <<>>]
Str(t) == [kind |-> "str", text |-> t]

EmptyDict == [k \in {} |-> StrV(<<>>)]
NothingEmitted == [done |-> FALSE, record |-> EmptyDict]

\* Variant of EntryLocals: both locals start as empty strings.
EntryLocalsEmptyStr == [data |-> Str(<<>>), more_data |-> Str(<<>>)]

\* The locals of get_vigor_stats on entry: "data = None", and no binding of
\* more_data before the assignment in the try block.
EntryLocals == [data |-> NoneVal, more_data |-> Unbound]

\* Variant of LoopTest: "while retries >= 0:".
LoopTestInclusive(r) == IF r >= 0 THEN "ru_read" ELSE "ru_raise"

\* "while retries:" -- another read while retries is truthy, else the raise
LoopTest(r) == IF r # 0 THEN "ru_read" ELSE "ru_raise"

\* Which clauses of "try ... except Exception" catch the given exception.
Catches(e) == e \in {"Exception", "ConnectionError"}

Init ==
  /\ mainpc = "start" /\ exitStatus = -1 /\ mainlog = "none" /\ channelOpen = FALSE
  /\ pc = "idle"
  /\ marker = <<>> /\ retries = 0 /\ rdata = <<>>
  /\ retries0 = 0 /\ nreads = 0 /\ acc = <<>>
  /\ data = Unbound /\ more_data = Unbound
  /\ idx = 0 /\ output = EmptyDict /\ emitted = NothingEmitted
  /\ written = <<>> /\ trace = <<>> /\ nparsed = 0
  /\ failed = FALSE /\ crash = "none"
  /\ ktext = <<>> /\ kpath = "none" /\ kstage = 0 /\ kkey = <<>> /\ krekey = <<>>

\* ----------------------------------------------------------------- main
\* open_connection succeeds: the shell callback get_vigor_stats is started
\* and main waits for writer.protocol.waiter_closed.
MainConnected ==
  /\ mainpc = "start"
  /\ mainpc' = "wait_closed" /\ channelOpen' = TRUE /\ pc' = "begin"
  /\ UNCHANGED <<keyVars, exitStatus, mainlog, ruVars, data, more_data, extractVars, written,
                 trace, failed, crash>>

\* open_connection raises ConnectionRefusedError: logged, main returns.
MainRefused ==
  /\ mainpc = "start"
  /\ mainpc' = "exited" /\ exitStatus' = 0 /\ mainlog' = "refused"
  /\ UNCHANGED <<keyVars, channelOpen, pc, ruVars, data, more_data, extractVars, written,
                 trace, failed, crash>>

\* open_connection raises another OSError: no handler, the traceback ends the
\* process with status 1.
MainConnectError ==
  /\ mainpc = "start"
  /\ mainpc' = "exited" /\ exitStatus' = 1
  /\ UNCHANGED <<keyVars, mainlog, channelOpen, pc, ruVars, data, more_data, extractVars, written,
                 trace, failed, crash>>

\* waiter_closed completes once the shell coroutine has ended; main returns.
MainWaiterClosed ==
  /\ mainpc = "wait_closed" /\ pc \in {"done", "crashed"}
  /\ mainpc' = "exited" /\ exitStatus' = 0
  /\ UNCHANGED <<keyVars, mainlog, channelOpen, pc, ruVars, data, more_data, extractVars,
                 written, trace, failed, crash>>

\* Variant of AfterInterrupt: the handler goes back to waiting on the loop.
AfterInterruptResume == "wait_closed"

\* Where main() is after "except KeyboardInterrupt": it has logged and returns.
AfterInterrupt == "exited"

\* ^C while main is in run_until_complete and the coroutine is at any
\* position: KeyboardInterrupt leaves the event loop, which then runs nothing
\* more; main logs "User cancelled with ^C" and returns.
MainInterrupt ==
  /\ mainpc = "wait_closed" /\ mainlog = "none"
  /\ mainpc' = AfterInterrupt /\ mainlog' = "cancelled"
  /\ exitStatus' = IF AfterInterrupt = "exited" THEN 0 ELSE exitStatus
  /\ UNCHANGED <<keyVars, channelOpen, pc, ruVars, data, more_data, extractVars, written,
                 trace, failed, crash>>

\* ----------------------------------------------------------- read_until
\* The call read_until(reader, text, retries): binds the parameters and runs
\* to the first loop test.
CallReadUntil(text, r) ==
  /\ marker' = text /\ retries' = r /\ retries0' = r
  /\ nreads' = 0 /\ acc' = <<>> /\ rdata' = <<>>
  /\ pc' = LoopTest(r)

\* The frame of read_until is gone once the call has returned or raised.
LeaveReadUntil ==
  /\ marker' = <<>> /\ retries' = 0 /\ retries0' = 0
  /\ nreads' = 0 /\ acc' = <<>> /\ rdata' = <<>>

\* The event of observing a marker.
Observed(m) == IF m = MarkerAccount THEN "obs_account"
               ELSE IF m = MarkerPassword THEN "obs_password" ELSE "obs_prompt"

\* An exception raised inside the try block of get_vigor_stats.
RaiseInTry(e) ==
  /\ failed' = TRUE
  /\ IF Catches(e) THEN pc' = "except" /\ crash' = crash
                   ELSE pc' = "crashed" /\ crash' = e

\* "data = await reader.read(1024)" returns d; then the endswith test and
\* either the return or "retries -= 1" up to the await of the sleep.
RURead ==
  /\ pc = "ru_read" /\ mainpc = "wait_closed"
  /\ \E d \in HandshakeChunks(marker) :
       /\ rdata' = d /\ acc' = acc \o d /\ nreads' = nreads + 1
       /\ IF EndsWith(d, marker)
          THEN /\ pc' = "ru_return" /\ retries' = retries
               /\ trace' = Append(trace, Observed(marker))
          ELSE /\ pc' = "ru_sleep" /\ retries' = retries - 1
               /\ trace' = trace
  /\ UNCHANGED <<keyVars, mainVars, marker, retries0, data, more_data, extractVars,
                 written, failed, crash>>

\* reader.read raises (the connection was reset).
RUReadError ==
  /\ pc = "ru_read" /\ mainpc = "wait_closed"
  /\ RaiseInTry("ConnectionError")
  /\ LeaveReadUntil
  /\ UNCHANGED <<keyVars, mainVars, data, more_data, extractVars, written, trace>>

\* "await asyncio.sleep(sleep)" returns; back to the loop test.
RUSleepDone ==
  /\ pc = "ru_sleep" /\ mainpc = "wait_closed"
  /\ pc' = LoopTest(retries)
  /\ UNCHANGED <<keyVars, mainVars, ruVars, data, more_data, extractVars, written,
                 trace, failed, crash>>

\* raise Exception("Did not find expected text")
RURaise ==
  /\ pc = "ru_raise" /\ mainpc = "wait_closed"
  /\ RaiseInTry("Exception")
  /\ LeaveReadUntil
  /\ UNCHANGED <<keyVars, mainVars, data, more_data, extractVars, written, trace>>

\* ------------------------------------------------------ get_vigor_stats
\* Entry: "data = None", then the wait for "Account:".
BeginShell ==
  /\ pc = "begin" /\ mainpc = "wait_closed"
  /\ data' = EntryLocals.data /\ more_data' = EntryLocals.more_data
  /\ CallReadUntil(MarkerAccount, DefaultRetries)
  /\ UNCHANGED <<keyVars, mainVars, extractVars, written, trace, failed, crash>>

\* read_until("Account:") returned: write the username, wait for "Password: ".
SendUsername ==
  /\ pc = "ru_return" /\ marker = MarkerAccount /\ mainpc = "wait_closed"
  /\ written' = Append(written, VIGOR_USERNAME \o CRLF)
  /\ trace' = Append(trace, "write_user")
  /\ CallReadUntil(MarkerPassword, DefaultRetries)
  /\ UNCHANGED <<keyVars, mainVars, data, more_data, extractVars, failed, crash>>

\* read_until("Password: ") returned: write the password, wait for "> ".
SendPassword ==
  /\ pc = "ru_return" /\ marker = MarkerPassword /\ mainpc = "wait_closed"
  /\ written' = Append(written, VIGOR_PASSWORD \o CRLF)
  /\ trace' = Append(trace, "write_pass")
  /\ CallReadUntil(MarkerPrompt, DefaultRetries)
  /\ UNCHANGED <<keyVars, mainVars, data, more_data, extractVars, failed, crash>>

\* read_until("> ") returned: write "vdsl status", start the settle delay.
SendStatus ==
  /\ pc = "ru_return" /\ marker = MarkerPrompt /\ mainpc = "wait_closed"
  /\ written' = Append(written, CmdStatus)
  /\ trace' = Append(trace, "write_cmd1")
  /\ pc' = "settle1"
  /\ LeaveReadUntil
  /\ UNCHANGED <<keyVars, mainVars, data, more_data, extractVars, failed, crash>>

\* "await asyncio.sleep(1)" returns, after either command.
SettleDone ==
  /\ pc \in {"settle1", "settle2"} /\ mainpc = "wait_closed"
  /\ pc' = IF pc = "settle1" THEN "read1" ELSE "read2"
  /\ UNCHANGED <<keyVars, mainVars, ruVars, data, more_data, extractVars, written,
                 trace, failed, crash>>

\* "data = await reader.read(4096)" returns; write "vdsl status more".
ReadBasic ==
  /\ pc = "read1" /\ mainpc = "wait_closed"
  /\ \E b \in BasicBlobs : data' = Str(b)
  /\ written' = Append(written, CmdStatusMore)
  /\ trace' = trace \o <<"read_basic", "write_cmd2">>
  /\ pc' = "settle2"
  /\ UNCHANGED <<keyVars, mainVars, ruVars, more_data, extractVars, failed, crash>>

\* "more_data = await reader.read(8096)" returns; the try block is left.
ReadExt ==
  /\ pc = "read2" /\ mainpc = "wait_closed"
  /\ \E b \in ExtBlobs : more_data' = Str(b)
  /\ trace' = Append(trace, "read_ext")
  /\ pc' = "parse_basic"
  /\ UNCHANGED <<keyVars, mainVars, ruVars, data, extractVars, written, failed, crash>>

\* Either command read raises (the connection was reset).
ReadError ==
  /\ pc \in {"read1", "read2"} /\ mainpc = "wait_closed"
  /\ RaiseInTry("ConnectionError")
  /\ UNCHANGED <<keyVars, mainVars, ruVars, data, more_data, extractVars, written, trace>>

\* Variant of Except: the handler sends "exit" to the device before going on.
ExceptWritesExit ==
  /\ pc = "except" /\ mainpc = "wait_closed"
  /\ pc' = "parse_basic"
  /\ written' = Append(written, <<"e","x","i","t">> \o CRLF)
  /\ UNCHANGED <<keyVars, mainVars, ruVars, data, more_data, extractVars,
                 trace, failed, crash>>

\* "except Exception as exc: logging.exception(...)": execution continues
\* after the try statement.
Except ==
  /\ pc = "except" /\ mainpc = "wait_closed"
  /\ pc' = "parse_basic"
  /\ UNCHANGED <<keyVars, mainVars, ruVars, data, more_data, extractVars, written,
                 trace, failed, crash>>

\* ----------------------------------------------------------- extraction
\* len(v) in the two logging.info calls: the exception it raises, or "none".
LenRaises(v) == IF v.kind = "None" THEN "TypeError"
                ELSE IF v.kind = "Unbound" THEN "UnboundLocalError"
                ELSE "none"

\* What the first loop does with the match object of a field.
SimpleResult(value, m) ==
  IF ~m.ok THEN [st |-> "miss", v |-> StrV(<<>>)]
  ELSE IF Coerce(value.coerce, m.gs[1]).raised
  THEN [st |-> "raise", v |-> StrV(m.gs[1])]
  ELSE [st |-> "ok", v |-> Coerce(value.coerce, m.gs[1]).v]

\* The body of the first for loop for one field: "miss" (continue), "raise"
\* (coerce_fn raised) or "ok" with the converted value.
ExtractSimple(value, text) ==
  IF ~Contains(text, value.label) THEN [st |-> "miss", v |-> StrV(<<>>)]
  ELSE SimpleResult(value, Search(text, SimplePattern(value.label, value.unit)))

\* What the second loop does with the match object of a field.
PairResult(value, m) ==
  IF ~m.ok THEN [st |-> "miss", near |-> StrV(<<>>), far |-> StrV(<<>>)]
  ELSE IF Coerce(value.coerce, m.gs[1]).raised \/ Coerce(value.coerce, m.gs[2]).raised
  THEN [st |-> "raise", near |-> StrV(m.gs[1]), far |-> StrV(m.gs[2])]
  ELSE [st |-> "ok", near |-> Coerce(value.coerce, m.gs[1]).v,
                     far |-> Coerce(value.coerce, m.gs[2]).v]

\* The body of the second for loop for one field, up to the two assignments.
ExtractPair(value, text) == PairResult(value, Search(text, PairPattern(value.label)))

\* output[key] = converted
Store(out, key, v) == (key :> v) @@ out

\* Variant of StorePair: the far end is not stored when it is zero.
StorePairFarIfNonZero(out, key, near, far) ==
  IF far.kind = "int" /\ far.n = 0
  THEN Store(out, key \o <<"_","n","e","a","r">>, near)
  ELSE Store(Store(out, key \o <<"_","n","e","a","r">>, near), key \o <<"_","f","a","r">>, far)

\* output[key + "_near"] = near_end; output[key + "_far"] = far_end
StorePair(out, key, near, far) ==
  Store(Store(out, key \o <<"_","n","e","a","r">>, near), key \o <<"_","f","a","r">>, far)

\* key + "_near" and key + "_far"
NearKey(key) == key \o <<"_","n","e","a","r">>
FarKey(key) == key \o <<"_","f","a","r">>

\* The key of each entry of the two lists, in list order.
SimpleKeys == [i \in DOMAIN VIGOR_130_VALUES |-> LabelKey(VIGOR_130_VALUES[i].label)]
PairedKeys == [i \in DOMAIN VIGOR_130_MORE_VALUES |-> PairKey(VIGOR_130_MORE_VALUES[i])]

\* The line layout the second loop is written for ("The first number on each
\* line is the near end, the second is far end"): seg is a line that starts
\* with the label. The positions of the colon, of the two numbers and of
\* their ends, each the end of the run before it.
LineFrom(s, p) ==
  SubSeq(s, p, (CHOOSE j \in p..(Len(s) + 1) :
                   /\ j = Len(s) + 1 \/ s[j] = "\n"
                   /\ \A k \in p..(j - 1) : s[k] # "\n") - 1)
ColonAt(seg, label) == RunEnd(seg, Len(label) + 1, "s")
NearFrom(seg, label) == RunEnd(seg, ColonAt(seg, label) + 1, "s")
NearEnd(seg, label) == RunEnd(seg, NearFrom(seg, label), "d")
FarFrom(seg, label) == RunEnd(seg, NearEnd(seg, label), "s")
FarEnd(seg, label) == RunEnd(seg, FarFrom(seg, label), "d")
PairLine(seg, label) ==
  /\ StartsWithAt(seg, 1, label)
  /\ ColonAt(seg, label) > Len(label) + 1
  /\ ColonAt(seg, label) <= Len(seg) /\ seg[ColonAt(seg, label)] = ":"
  /\ NearFrom(seg, label) > ColonAt(seg, label) + 1
  /\ NearEnd(seg, label) > NearFrom(seg, label)
  /\ FarFrom(seg, label) > NearEnd(seg, label)
  /\ FarEnd(seg, label) > FarFrom(seg, label)
  /\ \A k \in FarEnd(seg, label)..Len(seg) : ~IsDigit(seg[k])
NearTok(seg, label) == SubSeq(seg, NearFrom(seg, label), NearEnd(seg, label) - 1)
FarTok(seg, label) == SubSeq(seg, FarFrom(seg, label), FarEnd(seg, label) - 1)

\* The line layout the first loop is written for: seg starts with the label;
\* after the colon comes one token, whitespace, and for a field with a unit
\* the unit as a token of its own.
TokEnd(seg, label) == RunEnd(seg, NearFrom(seg, label), "w")
UnitAt(seg, label) == RunEnd(seg, TokEnd(seg, label), "s")
SimpleLine(seg, label, unit) ==
  /\ StartsWithAt(seg, 1, label)
  /\ ColonAt(seg, label) > Len(label) + 1
  /\ ColonAt(seg, label) <= Len(seg) /\ seg[ColonAt(seg, label)] = ":"
  /\ NearFrom(seg, label) > ColonAt(seg, label) + 1
  /\ TokEnd(seg, label) > NearFrom(seg, label)
  /\ UnitAt(seg, label) > TokEnd(seg, label)
  /\ unit # <<>> =>
       /\ StartsWithAt(seg, UnitAt(seg, label), unit)
       /\ \/ UnitAt(seg, label) + Len(unit) > Len(seg)
          \/ ~IsWord(seg[UnitAt(seg, label) + Len(unit)])
SimpleTok(seg, label) == SubSeq(seg, NearFrom(seg, label), TokEnd(seg, label) - 1)

\* "output = dict()" and the logging.info of len(data).
ParseBasicBegin ==
  /\ pc = "parse_basic" /\ mainpc = "wait_closed"
  /\ output' = EmptyDict
  /\ IF LenRaises(data) # "none"
     THEN /\ pc' = "crashed" /\ crash' = LenRaises(data)
          /\ UNCHANGED <<idx, trace>>
     ELSE /\ pc' = "basic_loop" /\ idx' = 1 /\ crash' = crash
          /\ trace' = Append(trace, "extract")
  /\ UNCHANGED <<keyVars, mainVars, ruVars, data, more_data, emitted, written, nparsed, failed>>

\* One iteration of "for value in VIGOR_130_VALUES".
BasicField ==
  /\ pc = "basic_loop" /\ idx <= Len(VIGOR_130_VALUES) /\ mainpc = "wait_closed"
  /\ nparsed' = nparsed + 1
  /\ \E r \in {ExtractSimple(VIGOR_130_VALUES[idx], data.text)} :
       IF r.st = "raise"
       THEN pc' = "crashed" /\ crash' = "ValueError" /\ UNCHANGED <<idx, output>>
       ELSE /\ pc' = pc /\ crash' = crash /\ idx' = idx + 1
            /\ output' = IF r.st = "ok"
                         THEN Store(output, LabelKey(VIGOR_130_VALUES[idx].label), r.v)
                         ELSE output
  /\ UNCHANGED <<keyVars, mainVars, ruVars, data, more_data, emitted, written, trace, failed>>

\* The first loop is exhausted: the logging.info of len(more_data).
BasicLoopEnd ==
  /\ pc = "basic_loop" /\ idx > Len(VIGOR_130_VALUES) /\ mainpc = "wait_closed"
  /\ IF LenRaises(more_data) # "none"
     THEN pc' = "crashed" /\ crash' = LenRaises(more_data) /\ idx' = idx
     ELSE pc' = "more_loop" /\ idx' = 1 /\ crash' = crash
  /\ UNCHANGED <<keyVars, mainVars, ruVars, data, more_data, output, emitted, written,
                 trace, nparsed, failed>>

\* One iteration of "for value in VIGOR_130_MORE_VALUES".
MoreField ==
  /\ pc = "more_loop" /\ idx <= Len(VIGOR_130_MORE_VALUES) /\ mainpc = "wait_closed"
  /\ nparsed' = nparsed + 1
  /\ \E r \in {ExtractPair(VIGOR_130_MORE_VALUES[idx], more_data.text)} :
       IF r.st = "raise"
       THEN pc' = "crashed" /\ crash' = "ValueError" /\ UNCHANGED <<idx, output>>
       ELSE /\ pc' = pc /\ crash' = crash /\ idx' = idx + 1
            /\ output' = IF r.st = "ok"
                         THEN StorePair(output, PairKey(VIGOR_130_MORE_VALUES[idx]),
                                        r.near, r.far)
                         ELSE output
  /\ UNCHANGED <<keyVars, mainVars, ruVars, data, more_data, emitted, written, trace, failed>>

\* The second loop is exhausted.
MoreLoopEnd ==
  /\ pc = "more_loop" /\ idx > Len(VIGOR_130_MORE_VALUES) /\ mainpc = "wait_closed"
  /\ pc' = "print"
  /\ UNCHANGED <<keyVars, mainVars, ruVars, data, more_data, extractVars, written,
                 trace, failed, crash>>

\* print(json.dumps(output)); the coroutine returns.
EmitRecord ==
  /\ pc = "print" /\ mainpc = "wait_closed"
  /\ emitted' = [done |-> TRUE, record |-> output]
  /\ pc' = "done"
  /\ UNCHANGED <<keyVars, mainVars, ruVars, data, more_data, idx, output, nparsed,
                 written, trace, failed, crash>>

\* ------------------------------------------------------- specifications
Next ==
  \/ MainConnected \/ MainRefused \/ MainConnectError \/ MainWaiterClosed
  \/ MainInterrupt
  \/ BeginShell \/ RURead \/ RUReadError \/ RUSleepDone \/ RURaise
  \/ SendUsername \/ SendPassword \/ SendStatus \/ SettleDone
  \/ ReadBasic \/ ReadExt \/ ReadError \/ Except
  \/ ParseBasicBegin \/ BasicField \/ BasicLoopEnd
  \/ MoreField \/ MoreLoopEnd \/ EmitRecord

\* The program from the start of main().
Spec == Init /\ [][Next]_vars

\* What the driver has written, and the events that have happened, when it
\* enters the wait for marker m.
PriorWritten(m) ==
  IF m = MarkerAccount THEN <<>>
  ELSE IF m = MarkerPassword THEN <<VIGOR_USERNAME \o CRLF>>
  ELSE <<VIGOR_USERNAME \o CRLF, VIGOR_PASSWORD \o CRLF>>
PriorTrace(m) ==
  IF m = MarkerAccount THEN <<>>
  ELSE IF m = MarkerPassword THEN <<"obs_account", "write_user">>
  ELSE <<"obs_account", "write_user", "obs_password", "write_pass">>

\* read_until exercised over its parameters: the program from its start, and
\* a session that enters any of its three waits with a retry budget of
\* 0..MaxRetries instead of the default.
InitRU ==
  \/ Init
  \/ \E m \in {MarkerAccount, MarkerPassword, MarkerPrompt}, r \in 0..MaxRetries :
       /\ mainpc = "wait_closed" /\ exitStatus = -1 /\ mainlog = "none"
       /\ channelOpen = TRUE
       /\ pc = LoopTest(r)
       /\ marker = m /\ retries = r /\ rdata = <<>>
       /\ retries0 = r /\ nreads = 0 /\ acc = <<>>
       /\ data = EntryLocals.data /\ more_data = EntryLocals.more_data
       /\ idx = 0 /\ output = EmptyDict /\ emitted = NothingEmitted
       /\ written = PriorWritten(m) /\ trace = PriorTrace(m) /\ nparsed = 0
       /\ failed = FALSE /\ crash = "none"
       /\ ktext = <<>> /\ kpath = "none" /\ kstage = 0 /\ kkey = <<>> /\ krekey = <<>>

\* Every read of read_until returns (with data or with an error), every sleep
\* returns, and the event loop runs the coroutine up to its raise.
SpecRU ==
  /\ InitRU /\ [][Next]_vars
  /\ WF_vars(RURead \/ RUReadError) /\ WF_vars(RUSleepDone) /\ WF_vars(RURaise)

\* ------------------------------------------------------ key construction
\* Largest length of a label or description given to the key construction.
MaxKeyLen == 4

\* Labels and descriptions over letters of both cases and the space.
KeyTexts == UNION { [1..n -> {"A", "b", " "}] : n \in 0..MaxKeyLen }

\* A schema entry with the given label and description.
Entry(label, desc) == [label |-> label, unit |-> <<>>, desc |-> desc, coerce |-> "int"]

\* The key the loops compute on each path: the first loop from the label,
\* the second loop from the label of an entry without description, or from
\* the description of an entry that has one.
KeyOn(path, text) ==
  IF path = "simple" THEN LabelKey(text)
  ELSE IF path = "pair_label" THEN PairKey(Entry(text, <<>>))
  ELSE PairKey(Entry(<<"X">>, text))

\* The key construction applied to every bounded text, on each path; a
\* description is never empty (an empty one selects the label path).
InitKey ==
  /\ mainpc = "start" /\ exitStatus = -1 /\ mainlog = "none" /\ channelOpen = FALSE
  /\ pc = "idle"
  /\ marker = <<>> /\ retries = 0 /\ rdata = <<>>
  /\ retries0 = 0 /\ nreads = 0 /\ acc = <<>>
  /\ data = Unbound /\ more_data = Unbound
  /\ idx = 0 /\ output = EmptyDict /\ emitted = NothingEmitted
  /\ written = <<>> /\ trace = <<>> /\ nparsed = 0
  /\ failed = FALSE /\ crash = "none"
  /\ ktext \in KeyTexts /\ kpath \in {"simple", "pair_label", "pair_desc"}
  /\ kpath = "pair_desc" => ktext # <<>>
  /\ kstage = 0 /\ kkey = <<>> /\ krekey = <<>>

progVars == <<mainVars, pc, ruVars, data, more_data, extractVars, written, trace,
              failed, crash>>

\* The key of the first loop.
BuildSimpleKey ==
  /\ kpath = "simple" /\ kstage = 0
  /\ kkey' = KeyOn(kpath, ktext) /\ kstage' = 1
  /\ UNCHANGED <<progVars, ktext, kpath, krekey>>

\* The key of the second loop.
BuildPairKey ==
  /\ kpath \in {"pair_label", "pair_desc"} /\ kstage = 0
  /\ kkey' = KeyOn(kpath, ktext) /\ kstage' = 1
  /\ UNCHANGED <<progVars, ktext, kpath, krekey>>

\* The same construction given the key it produced.
RebuildKey ==
  /\ kstage = 1 /\ (kpath = "pair_desc" => kkey # <<>>)
  /\ krekey' = KeyOn(kpath, kkey) /\ kstage' = 2
  /\ UNCHANGED <<progVars, ktext, kpath, kkey>>

NextKey == BuildSimpleKey \/ BuildPairKey \/ RebuildKey

SpecKey == InitKey /\ [][NextKey]_vars

\* ================================================================ claims

\* C1: if a session step fails, extraction never begins: no field of either
\* list is parsed unless both the basic and the extended blob were captured.
C1_NoExtractionOnFailure ==
  nparsed > 0 => (data.kind = "str" /\ more_data.kind = "str")

\* C2: in every run in which a handshake wait or a command read fails, the
\* run ends in failure and no record is emitted: the print is never reached.
C2_NoRecordAfterFailure ==
  failed => /\ ~emitted.done
            /\ pc \in {"except", "parse_basic", "basic_loop", "crashed"}
            /\ (pc = "crashed" => crash \in {"TypeError", "UnboundLocalError", "ValueError"})

\* C2 witness: the device never emitted "Account:", read_until timed out and
\* the run ended with an exception, nothing emitted.
C2_Witness ==
  /\ failed /\ pc = "crashed" /\ crash = "TypeError"
  /\ trace = <<>> /\ ~emitted.done

\* C3: read_until accumulates the chunks it reads: whenever the concatenation
\* of the chunks read so far ends with the marker, read_until has returned,
\* and the buffer it returns holds every byte read.
C3_AccumulatesBuffer ==
  (pc \in {"ru_sleep", "ru_return"} /\ EndsWith(acc, marker))
     => (pc = "ru_return" /\ rdata = acc /\ EndsWith(rdata, marker))

\* C4: on a stream whose reads all return, read_until does at most "retries"
\* reads (none when retries is 0), raises only when the budget is used up,
\* always leaves its loop unless the user interrupts the run, and its
\* exception reaches the handler of get_vigor_stats, not beyond it.
C4_ReadUntilBounded ==
  /\ [](pc \in {"ru_read", "ru_sleep", "ru_raise", "ru_return"}
          => /\ nreads <= retries0
             /\ retries >= 0
             /\ (pc = "ru_raise" => nreads = retries0 /\ retries = 0))
  /\ [][pc = "ru_raise" /\ mainlog' = "none" => pc' = "except"]_vars
  /\ (pc \in {"ru_read", "ru_sleep", "ru_raise"})
        ~> (pc \notin {"ru_read", "ru_sleep", "ru_raise"} \/ mainlog = "cancelled")

\* C4 witness: a closed stream (every read empty) has used up the default
\* budget and read_until is at its raise.
C4_Witness ==
  /\ pc = "ru_raise" /\ retries0 = DefaultRetries /\ nreads = DefaultRetries
  /\ acc = <<>>

\* C5: the emitted record has both <key>_near and <key>_far of a paired field
\* or neither of them.
C5_BothOrNeither ==
  emitted.done =>
    \A i \in 1..Len(VIGOR_130_MORE_VALUES) :
      LET key == PairKey(VIGOR_130_MORE_VALUES[i])
      IN (key \o <<"_","n","e","a","r">>) \in DOMAIN emitted.record
           <=> (key \o <<"_","f","a","r">>) \in DOMAIN emitted.record

\* C5 witness: a record was emitted in which one paired field has its two keys
\* and another paired field has none.
C5_Witness ==
  /\ emitted.done
  /\ \E i, j \in 1..Len(VIGOR_130_MORE_VALUES) :
       /\ (PairKey(VIGOR_130_MORE_VALUES[i]) \o <<"_","n","e","a","r">>) \in DOMAIN emitted.record
       /\ (PairKey(VIGOR_130_MORE_VALUES[i]) \o <<"_","f","a","r">>) \in DOMAIN emitted.record
       /\ (PairKey(VIGOR_130_MORE_VALUES[j]) \o <<"_","n","e","a","r">>) \notin DOMAIN emitted.record
       /\ (PairKey(VIGOR_130_MORE_VALUES[j]) \o <<"_","f","a","r">>) \notin DOMAIN emitted.record

\* C6: a simple field whose pattern does not match or whose token fails
\* coercion is omitted and the pass continues with the next field: every
\* iteration of the first loop is followed by the next one, never by the end
\* of the run.
C6_FieldFailureDoesNotAbort ==
  [][(pc = "basic_loop" /\ idx <= Len(VIGOR_130_VALUES))
       => (pc' = "basic_loop" /\ idx' = idx + 1)]_vars

\* C7: in the emitted record, a paired field with no line of its own in the
\* extended blob (no line that starts with exactly its label) has neither of
\* its keys, and the values of a field that is in the record are those of a
\* line of its own.
C7_MissingLineOmitsKeys ==
  LET s == more_data.text
      OwnLine(label, i) ==
        /\ i = 1 \/ s[i - 1] = "\n"
        /\ MatchAt(s, i, LabelPattern(label)).ok
      near(F) == PairKey(F) \o <<"_","n","e","a","r">>
      far(F) == PairKey(F) \o <<"_","f","a","r">>
  IN emitted.done =>
       \A k \in 1..Len(VIGOR_130_MORE_VALUES) :
         LET F == VIGOR_130_MORE_VALUES[k]
         IN /\ (~\E i \in 1..Len(s) : OwnLine(F.label, i))
                 => (near(F) \notin DOMAIN emitted.record
                       /\ far(F) \notin DOMAIN emitted.record)
            /\ (near(F) \in DOMAIN emitted.record /\ far(F) \in DOMAIN emitted.record)
                 => \E i \in 1..Len(s) :
                      /\ OwnLine(F.label, i)
                      /\ MatchAt(s, i, PairPattern(F.label)).ok
                      /\ emitted.record[near(F)]
                           = Coerce(F.coerce, MatchAt(s, i, PairPattern(F.label)).gs[1]).v
                      /\ emitted.record[far(F)]
                           = Coerce(F.coerce, MatchAt(s, i, PairPattern(F.label)).gs[2]).v

\* C8: the session events of every run follow the one order: marker, username,
\* marker, password, prompt, first command, basic read, second command,
\* extended read, extraction; none skipped, none repeated.
C8_StrictOrder ==
  LET order == <<"obs_account", "write_user", "obs_password", "write_pass",
                 "obs_prompt", "write_cmd1", "read_basic", "write_cmd2",
                 "read_ext", "extract">>
  IN /\ Len(trace) <= Len(order)
     /\ trace = SubSeq(order, 1, Len(trace))

\* C9: when main has ended after a failed run (the connection was refused, or
\* a session step raised), its status differs from the status of a success.
C9_FailureDistinguishable ==
  (mainpc = "exited" /\ (pc = "idle" \/ failed)) => exitStatus # 0

\* C10: when the program has ended, it has released the channel it opened.
C10_ChannelReleased ==
  mainpc = "exited" => ~channelOpen

\* C11: an interrupt that arrives while the driver is suspended in a wait (a
\* read or sleep of read_until, a settle delay, a command read) ends the run
\* there: the coroutine takes no further step, nothing more is written or
\* parsed, and no record is emitted.
C11_InterruptStopsRun ==
  /\ [](mainlog = "cancelled" /\ pc \in {"ru_read", "ru_sleep", "settle1", "settle2", "read1", "read2"}
          => ~emitted.done /\ nparsed = 0 /\ mainpc = "exited")
  /\ [][mainlog = "cancelled"
          => /\ pc' = pc /\ written' = written /\ trace' = trace
             /\ nparsed' = nparsed /\ emitted' = emitted]_vars

\* C11 witness: the run was interrupted during the settle delay of the second
\* command, and main has returned.
C11_Witness ==
  /\ mainlog = "cancelled" /\ mainpc = "exited" /\ pc = "settle2"
  /\ ~emitted.done

\* C12: on every path the key equals the reference normalisation of the text:
\* lowercase, every run of two or more spaces collapsed to one space, each
\* space then replaced by one underscore.
C12_KeyIsReferenceNormalize ==
  LET x == ktext
      kept == {i \in 1..Len(x) : ~(x[i] = " " /\ i > 1 /\ x[i - 1] = " ")}
      nth(j) == CHOOSE i \in kept : Cardinality({k \in kept : k <= i}) = j
      ref == [j \in 1..Cardinality(kept) |->
                IF x[nth(j)] = " " THEN "_" ELSE LowerChar(x[nth(j)])]
  IN kstage >= 1 => kkey = ref

\* C14: the key construction is idempotent: building a key from a key gives
\* that key again, on every path.
C14_KeyIdempotent ==
  kstage = 2 => krekey = kkey

\* C14 witness: a text with an upper-case letter and a run of three spaces
\* went through the label construction twice.
C14_Witness ==
  /\ kstage = 2 /\ kpath = "simple"
  /\ ktext = <<"A", " ", " ", " ">>
  /\ kkey = <<"a", "_", "_">>

\* C13: the keys of the shipped schema never collide (within the first list,
\* within the second list, and between a simple key and any _near/_far key),
\* and the key an iteration is about to assign is not in the record yet, so
\* no assignment overwrites an earlier field's value.
C13_NoKeyCollision ==
  /\ \A i, j \in DOMAIN SimpleKeys : i # j => SimpleKeys[i] # SimpleKeys[j]
  /\ \A i, j \in DOMAIN PairedKeys : i # j => PairedKeys[i] # PairedKeys[j]
  /\ \A i \in DOMAIN SimpleKeys : \A j \in DOMAIN PairedKeys :
       SimpleKeys[i] \notin {NearKey(PairedKeys[j]), FarKey(PairedKeys[j])}
  /\ pc = "basic_loop" /\ idx <= Len(VIGOR_130_VALUES)
       => SimpleKeys[idx] \notin DOMAIN output
  /\ pc = "more_loop" /\ idx <= Len(VIGOR_130_MORE_VALUES)
       => /\ NearKey(PairedKeys[idx]) \notin DOMAIN output
          /\ FarKey(PairedKeys[idx]) \notin DOMAIN output

\* C13 witness: a record was emitted that holds a simple field (State) and
\* both ends of two paired fields (LOS and ES), five keys or more.
C13_Witness ==
  /\ emitted.done
  /\ SimpleKeys[2] \in DOMAIN emitted.record
  /\ {NearKey(PairedKeys[5]), FarKey(PairedKeys[5]),
      NearKey(PairedKeys[13]), FarKey(PairedKeys[13])} \subseteq DOMAIN emitted.record
  /\ Cardinality(DOMAIN emitted.record) >= 5

\* C15: for a field whose coercion is bool, the recorded value follows the
\* captured token: the falsy token "0" is recorded as false and any other
\* token as true, at the near end and at the far end.
C15_BooleanFollowsToken ==
  \A i \in DOMAIN VIGOR_130_MORE_VALUES :
    \A m \in {Search(more_data.text, PairPattern(VIGOR_130_MORE_VALUES[i].label))} :
      /\ VIGOR_130_MORE_VALUES[i].coerce = "bool"
      /\ emitted.done /\ m.ok
      /\ NearKey(PairedKeys[i]) \in DOMAIN emitted.record
      => /\ emitted.record[NearKey(PairedKeys[i])] = BoolV(m.gs[1] # <<"0">>)
         /\ emitted.record[FarKey(PairedKeys[i])] = BoolV(m.gs[2] # <<"0">>)

\* C16: a paired field is in the emitted record exactly when some line of the
\* extended blob has the label followed by whitespace, a colon, whitespace and
\* exactly two numbers, all on that one line; the first number is then under
\* <key>_near and the second under <key>_far, <key> being built from the
\* description when the field has one (the FECS line gives
\* forward_error_correction_seconds_near = 345097 and _far = 633047).
C16_PairOnOneLine ==
  emitted.done =>
    \A i \in DOMAIN VIGOR_130_MORE_VALUES :
      \A f \in {VIGOR_130_MORE_VALUES[i]} :
        /\ NearKey(PairKey(f)) \in DOMAIN emitted.record
             <=> \E p \in 1..Len(more_data.text) :
                   PairLine(LineFrom(more_data.text, p), f.label)
        /\ NearKey(PairKey(f)) \in DOMAIN emitted.record /\ f.coerce = "int"
             => \E p \in 1..Len(more_data.text) :
                  \E seg \in {LineFrom(more_data.text, p)} :
                    /\ PairLine(seg, f.label)
                    /\ emitted.record[NearKey(PairKey(f))] = IntV(IntOf(NearTok(seg, f.label)))
                    /\ emitted.record[FarKey(PairKey(f))] = IntV(IntOf(FarTok(seg, f.label)))
        /\ more_data.text = LineFECS /\ i = 12
             => /\ PairKey(f) = <<"f","o","r","w","a","r","d","_","e","r","r","o","r","_",
                                  "c","o","r","r","e","c","t","i","o","n","_",
                                  "s","e","c","o","n","d","s">>
                /\ NearKey(PairKey(f)) \in DOMAIN emitted.record
                /\ emitted.record[NearKey(PairKey(f))] = IntV(345097)
                /\ emitted.record[FarKey(PairKey(f))] = IntV(633047)

\* C17: a simple field is in the emitted record exactly when the basic blob
\* has the label, whitespace, a colon, whitespace and one token followed by
\* whitespace, and, for a field that declares a unit, that unit as the next
\* token; the recorded value is that one token, as an integer for a field
\* coerced with int (the DS Actual Rate line gives ds_actual_rate = 123456).
C17_SimpleTokenAndUnit ==
  emitted.done =>
    \A i \in DOMAIN VIGOR_130_VALUES :
      \A f \in {VIGOR_130_VALUES[i]} :
        /\ SimpleKeys[i] \in DOMAIN emitted.record
             <=> \E p \in 1..Len(data.text) :
                   SimpleLine(SubSeq(data.text, p, Len(data.text)), f.label, f.unit)
        /\ SimpleKeys[i] \in DOMAIN emitted.record
             => \E p \in 1..Len(data.text) :
                  \E seg \in {SubSeq(data.text, p, Len(data.text))} :
                    /\ SimpleLine(seg, f.label, f.unit)
                    /\ emitted.record[SimpleKeys[i]] =
                         IF f.coerce = "int" THEN IntV(IntOf(SimpleTok(seg, f.label)))
                         ELSE StrV(SimpleTok(seg, f.label))
        /\ i = 4 /\ data.text = LineDSRate
             => /\ SimpleKeys[i] = <<"d","s","_","a","c","t","u","a","l","_","r","a","t","e">>
                /\ SimpleKeys[i] \in DOMAIN emitted.record
                /\ emitted.record[SimpleKeys[i]] = IntV(123456)

\* C18: once a session step has failed nothing more is written to the
\* channel; every write is one of the four writes of the session, the
\* password write comes only after "Account:" and "Password: " were both
\* observed, and a status command is written only after "> " was observed.
C18_NoWriteAfterFailure ==
  /\ [][failed => written' = written]_vars
  /\ [](/\ Len(written) = Cardinality({k \in 1..Len(trace) :
                 trace[k] \in {"write_user", "write_pass", "write_cmd1", "write_cmd2"}})
        /\ \A k \in 1..Len(trace) :
             /\ trace[k] = "write_pass"
                  => \E a, b \in 1..(k - 1) :
                       a < b /\ trace[a] = "obs_account" /\ trace[b] = "obs_password"
             /\ trace[k] \in {"write_cmd1", "write_cmd2"}
                  => \E a \in 1..(k - 1) : trace[a] = "obs_prompt"
        /\ \A k \in 1..Len(written) :
             written[k] \in {CmdStatus, CmdStatusMore}
               => "obs_prompt" \in {trace[a] : a \in 1..Len(trace)})

\* C18 witness: the wait for "> " failed after the username and the password
\* were written; the handler ran and the run ended with those two writes only.
C18_Witness ==
  /\ failed /\ pc = "crashed"
  /\ written = <<VIGOR_USERNAME \o CRLF, VIGOR_PASSWORD \o CRLF>>
  /\ "obs_prompt" \notin {trace[k] : k \in 1..Len(trace)}
====
